---------------------------- MODULE Spec2Model ----------------------------
(***************************************************************************)
(* Model of flask_login/main.py: the login gate that issues the signed     *)
(* Cloud-CDN-Cookie (home, logout, not_found, sign_cookie, get_secret).    *)
(*                                                                         *)
(* Strings are sequences of one-character strings, byte strings are        *)
(* sequences of numbers in 0..255.  All the text of the model is ASCII, so *)
(* encode('utf-8') maps each character to its code point.                  *)
(***************************************************************************)
EXTENDS Integers, Sequences, FiniteSets, TLC

(***************************************************************************)
(* Characters and Python's str / bytes primitives                          *)
(***************************************************************************)

\* The printable ASCII characters, code points 32..126, in order (the three
\* that a TLA+ string cannot hold stand as names; no text of the model uses them).
ASCII == <<" ","!","<dquote>","#","$","%","&","'","(",")","*","+",",","-",".","/","0","1","2","3","4","5","6","7","8","9",":",";","<","=",">","?","@","A","B","C","D","E","F","G","H","I","J","K","L","M","N","O","P","Q","R","S","T","U","V","W","X","Y","Z","[","<backslash>","]","^","_","<backtick>","a","b","c","d","e","f","g","h","i","j","k","l","m","n","o","p","q","r","s","t","u","v","w","x","y","z","{","|","}","~">>

\* ord(c) for a printable ASCII character.
Ord == [c \in {ASCII[i] : i \in DOMAIN ASCII} |-> 31 + CHOOSE i \in DOMAIN ASCII : ASCII[i] = c]

\* str.encode('utf-8') on ASCII text.
encode_utf8(s) == [i \in DOMAIN s |-> Ord[s[i]]]

\* Python's whitespace, as far as it occurs in the printable range.
Whitespace == {" "}

RECURSIVE lstrip(_)
lstrip(s) ==
    IF s # <<>> /\ Head(s) \in Whitespace THEN lstrip(Tail(s)) ELSE s

RECURSIVE rstrip(_)
rstrip(s) ==
    IF s # <<>> /\ s[Len(s)] \in Whitespace
    THEN rstrip(SubSeq(s, 1, Len(s) - 1))
    ELSE s

\* str.strip()
strip(s) == rstrip(lstrip(s))

\* s.startswith(p)
startswith(s, p) == Len(s) >= Len(p) /\ SubSeq(s, 1, Len(p)) = p

\* str.replace(old, new): every non-overlapping occurrence, left to right.
RECURSIVE replace(_, _, _)
replace(s, old, new) ==
    IF s = <<>> THEN <<>>
    ELSE IF startswith(s, old)
         THEN new \o replace(SubSeq(s, Len(old) + 1, Len(s)), old, new)
         ELSE <<Head(s)>> \o replace(Tail(s), old, new)

\* str(n) / '{}'.format(n) for an integer n >= 0.
RECURSIVE format_int(_)
format_int(n) ==
    IF n < 10 THEN <<ASCII[17 + n]>>
    ELSE format_int(n \div 10) \o <<ASCII[17 + (n % 10)]>>

(***************************************************************************)
(* base64 (the standard library's base64 / binascii modules)               *)
(***************************************************************************)

B64Std == <<"A","B","C","D","E","F","G","H","I","J","K","L","M","N","O","P","Q","R","S","T","U","V","W","X","Y","Z","a","b","c","d","e","f","g","h","i","j","k","l","m","n","o","p","q","r","s","t","u","v","w","x","y","z","0","1","2","3","4","5","6","7","8","9","+","/">>

\* binascii's table_a2b_base64: character -> sextet.
B64Index == [c \in {B64Std[i] : i \in DOMAIN B64Std} |-> (CHOOSE i \in DOMAIN B64Std : B64Std[i] = c) - 1]

\* binascii.b2a_base64(bs, newline=False)
RECURSIVE b2a_base64(_)
b2a_base64(bs) ==
    IF bs = <<>> THEN <<>>
    ELSE IF Len(bs) = 1 THEN
        << B64Std[(bs[1] \div 4) + 1],
           B64Std[((bs[1] % 4) * 16) + 1], "=", "=" >>
    ELSE IF Len(bs) = 2 THEN
        << B64Std[(bs[1] \div 4) + 1],
           B64Std[((bs[1] % 4) * 16 + (bs[2] \div 16)) + 1],
           B64Std[((bs[2] % 16) * 4) + 1], "=" >>
    ELSE
        << B64Std[(bs[1] \div 4) + 1],
           B64Std[((bs[1] % 4) * 16 + (bs[2] \div 16)) + 1],
           B64Std[((bs[2] % 16) * 4 + (bs[3] \div 64)) + 1],
           B64Std[(bs[3] % 64) + 1] >>
        \o b2a_base64(SubSeq(bs, 4, Len(bs)))

\* base64.urlsafe_b64encode: standard encoding, then '+' -> '-', '/' -> '_'.
urlsafe_b64encode(bs) ==
    LET e == b2a_base64(bs)
    IN  [i \in DOMAIN e |-> IF e[i] = "+" THEN "-" ELSE IF e[i] = "/" THEN "_" ELSE e[i]]

\* binascii.a2b_base64 in its default, non-strict mode: characters outside
\* the alphabet are skipped, a sufficient run of '=' ends the input, and an
\* unfinished quad at the end raises binascii.Error.
RECURSIVE a2b_base64(_, _, _, _, _, _)
a2b_base64(s, i, quad_pos, leftchar, pads, out) ==
    IF i > Len(s) THEN
        IF quad_pos # 0 THEN [err |-> TRUE, val |-> <<>>]
        ELSE [err |-> FALSE, val |-> out]
    ELSE IF s[i] = "=" THEN
        IF quad_pos >= 2 /\ quad_pos + pads + 1 >= 4
        THEN [err |-> FALSE, val |-> out]
        ELSE a2b_base64(s, i + 1, quad_pos, leftchar,
                        IF quad_pos >= 2 THEN pads + 1 ELSE pads, out)
    ELSE IF s[i] \notin DOMAIN B64Index THEN
        a2b_base64(s, i + 1, quad_pos, leftchar, pads, out)
    ELSE LET c == B64Index[s[i]] IN
        CASE quad_pos = 0 -> a2b_base64(s, i + 1, 1, c, 0, out)
          [] quad_pos = 1 ->
                a2b_base64(s, i + 1, 2, c % 16, 0,
                           Append(out, leftchar * 4 + (c \div 16)))
          [] quad_pos = 2 ->
                a2b_base64(s, i + 1, 3, c % 4, 0,
                           Append(out, leftchar * 16 + (c \div 4)))
          [] quad_pos = 3 ->
                a2b_base64(s, i + 1, 0, 0, 0, Append(out, leftchar * 64 + c))

\* base64.urlsafe_b64decode: '-' -> '+', '_' -> '/', then the standard decoder.
urlsafe_b64decode(s) ==
    LET t == [i \in DOMAIN s |-> IF s[i] = "-" THEN "+" ELSE IF s[i] = "_" THEN "/" ELSE s[i]]
    IN  a2b_base64(t, 1, 0, 0, 0, <<>>)

(***************************************************************************)
(* datetime (the standard library), as far as sign_cookie uses it          *)
(***************************************************************************)

\* datetime.date(1970, 1, 1).toordinal()
EpochOrdinal == 719163

\* datetime.datetime.utcfromtimestamp(t) for an integer t >= 0: a naive
\* datetime, held as its day ordinal, second of the day and microsecond.
utcfromtimestamp(t) ==
    [ordinal |-> EpochOrdinal + (t \div 86400), second |-> t % 86400, microsecond |-> 0]

\* datetime - datetime: a normalised timedelta (0 <= seconds < 86400,
\* 0 <= microseconds < 10^6).
datetime_sub(a, b) ==
    LET us  == a.microsecond - b.microsecond
        sec == (a.second - b.second) + (IF us < 0 THEN -1 ELSE 0)
    IN  [days         |-> (a.ordinal - b.ordinal) + (IF sec < 0 THEN -1 ELSE 0),
         seconds      |-> sec % 86400,
         microseconds |-> us % 1000000]

\* Mutant of int_total_seconds: td.seconds in place of td.total_seconds().
timedelta_seconds(td) == td.seconds

\* int(td.total_seconds()): the fraction is cut off towards zero.
int_total_seconds(td) ==
    LET whole == td.days * 86400 + td.seconds
    IN  IF whole < 0 /\ td.microseconds > 0 THEN whole + 1 ELSE whole

(***************************************************************************)
(* sign_cookie                                                             *)
(***************************************************************************)

\* The literal pieces of the signed policy.
URLPrefixEq == <<"U","R","L","P","r","e","f","i","x","=">>
ExpiresEq == <<":","E","x","p","i","r","e","s","=">>
KeyNameEq == <<":","K","e","y","N","a","m","e","=">>
SignatureEq == <<":","S","i","g","n","a","t","u","r","e","=">>

\* hmac.new(key, msg, hashlib.sha1).digest().  SHA-1 is not computed: the MAC
\* is the ideal one, a deterministic function of (key, msg) that is
\* injective, here the byte string  len(key) . key . msg.
hmac_sha1_digest(key, msg) == <<Len(key)>> \o key \o msg

\* Mutant of policy_pattern: KeyName before Expires.
policy_pattern_swapped(encoded_url_prefix, expires, key_name) ==
    URLPrefixEq \o encoded_url_prefix \o KeyNameEq \o key_name
        \o ExpiresEq \o format_int(expires)

\* u'URLPrefix={encoded_url_prefix}:Expires={expires}:KeyName={key_name}'.format(...)
policy_pattern(encoded_url_prefix, expires, key_name) ==
    URLPrefixEq \o encoded_url_prefix \o ExpiresEq \o format_int(expires)
        \o KeyNameEq \o key_name

\* sign_cookie(url_prefix, key_name, base64_key, expiration_time):
\* [err |-> TRUE] when urlsafe_b64decode raises, else the signed policy.
sign_cookie(url_prefix, key_name, base64_key, expiration_time) ==
    LET encoded_url_prefix   == urlsafe_b64encode(encode_utf8(strip(url_prefix)))
        epoch                == utcfromtimestamp(0)
        expiration_timestamp == int_total_seconds(datetime_sub(expiration_time, epoch))
        decoded_key          == urlsafe_b64decode(base64_key)
        policy    == policy_pattern(encoded_url_prefix, expiration_timestamp, key_name)
        digest    == hmac_sha1_digest(decoded_key.val, encode_utf8(policy))
        signature == urlsafe_b64encode(digest)
    IN  IF decoded_key.err
        THEN [err |-> TRUE, val |-> <<>>]
        ELSE [err |-> FALSE, val |-> policy \o SignatureEq \o signature]

(***************************************************************************)
(* get_secret                                                              *)
(***************************************************************************)

\* Payloads the secret version may hold.
KEY_AAAA == <<"A","A","A","A">>
KEY_URLSAFE == <<"-","_","8","=">>
KEY_TRAILING_SPACE == <<"A","A","A","A"," ">>
KEY_ONE_CHAR == <<"A">>
KEY_BAD_PAD == <<"A","A","=">>
KEY_STD_ALPHABET == <<"+","+","/","/">>
KEY_GARBAGE == <<"A","A","A","A","!">>
KEY_AFTER_PAD == <<"A","A","=","=","A","A","A","A">>

\* What sm_client.access_secret_version can answer: an error (the secret or
\* the service is not there), or a payload.
SecretPayloads ==
    { KEY_AAAA, KEY_URLSAFE, KEY_TRAILING_SPACE, <<>>, KEY_ONE_CHAR, KEY_BAD_PAD,
      KEY_STD_ALPHABET, KEY_GARBAGE, KEY_AFTER_PAD }

StoreAnswers ==
    {[ok |-> FALSE, payload |-> <<>>]} \cup {[ok |-> TRUE, payload |-> p] : p \in SecretPayloads}

\* get_secret(secret_id): raises when the access fails, else the payload
\* without its trailing whitespace.
get_secret(secret_id, answer) ==
    IF answer.ok
    THEN [err |-> FALSE, val |-> rstrip(answer.payload)]
    ELSE [err |-> TRUE, val |-> <<>>]

(***************************************************************************)
(* The application: configuration, session, handlers                       *)
(***************************************************************************)

VARIABLES
    web_url,            \* os.environ.get("WEB_URL")
    cdn_sign_key_name,  \* os.environ.get("CDN_SIGN_KEY")
    gcs_path,           \* os.environ.get("GCS_PATH")
    debug,              \* app.debug: TRUE under app.run(debug=True), FALSE when a WSGI server imports app
    session,            \* the caller's session: the set of keys that hold True
    fetches,            \* calls of sm_client.access_secret_version so far
    found_unset,        \* runs of home() so far that found 'logged_in' unset
    last,               \* the request served last
    resp                \* the response to it

vars == <<web_url, cdn_sign_key_name, gcs_path, debug, session, fetches, found_unset, last, resp>>

\* The texts of the configuration, the requests and the responses.
WEB_URL_PADDED == <<" ","h","t","t","p","s",":","/","/","a","/"," ">>
WEB_URL_B == <<"h","t","t","p","s",":","/","/","b","/">>
KEY_NAME_K1 == <<"k","1">>
KEY_NAME_MY_KEY == <<"m","y","-","k","e","y">>
PATH_ROOT == <<"/">>
PATH_GCS == <<"/","g","c","s">>
PATH_LOGOUT == <<"/","l","o","g","o","u","t">>
PATH_OTHER == <<"/","x">>
PATH_HTTP == <<"/","h","t","t","p",":">>
HTTP == <<"h","t","t","p">>
HTTPS == <<"h","t","t","p","s">>
HTTP_COLON == <<"h","t","t","p",":">>
HTTPS_COLON == <<"h","t","t","p","s",":">>
HOST == <<"a">>
CLEAR_QUERY == <<"g","c","p","-","i","a","p","-","m","o","d","e","=","C","L","E","A","R","_","L","O","G","I","N","_","C","O","O","K","I","E">>
NEXT_QUERY == <<"u","=","h","t","t","p",":","/","/","a","/">>
LOGOUT_REDIRECT == <<"/","?","g","c","p","-","i","a","p","-","m","o","d","e","=","C","L","E","A","R","_","L","O","G","I","N","_","C","O","O","K","I","E">>

\* Upper bound of the secret store accesses of one behaviour.
MaxFetches == 2

WebUrls  == { WEB_URL_PADDED, WEB_URL_B }
KeyNames == { KEY_NAME_K1, KEY_NAME_MY_KEY }
GcsPaths == { PATH_ROOT, PATH_GCS }

\* int(time.time()) at the requests.
Nows == { 395200, 1703462400 }

\* The URLs requested: scheme, host, path and query string.
RequestUrls ==
    { [scheme |-> HTTP,  host |-> HOST, path |-> PATH_ROOT,   query |-> <<>>],
      [scheme |-> HTTPS, host |-> HOST, path |-> PATH_ROOT,   query |-> <<>>],
      [scheme |-> HTTPS, host |-> HOST, path |-> PATH_ROOT,   query |-> CLEAR_QUERY],
      [scheme |-> HTTP,  host |-> HOST, path |-> PATH_ROOT,   query |-> NEXT_QUERY],
      [scheme |-> HTTP,  host |-> HOST, path |-> PATH_LOGOUT, query |-> <<>>],
      [scheme |-> HTTP,  host |-> HOST, path |-> PATH_OTHER,  query |-> <<>>],
      [scheme |-> HTTPS, host |-> HOST, path |-> PATH_HTTP,   query |-> <<>>] }

\* request.url
request_url(r) ==
    r.scheme \o <<":","/","/">> \o r.host \o r.path
        \o (IF r.query = <<>> THEN <<>> ELSE <<"?">> \o r.query)

\* The URL map: @app.route('/'), @app.route("/logout"), @app.errorhandler(404).
route(path) ==
    IF path = PATH_ROOT THEN "home"
    ELSE IF path = PATH_LOGOUT THEN "logout"
    ELSE "not_found"

NoCookies == <<>>

\* Mutant of set_cookie: path= left out, so the cookie gets Flask's default '/'.
set_cookie_default_path(value, expires, path) ==
    <<[name |-> "Cloud-CDN-Cookie", value |-> value, expires |-> expires, path |-> PATH_ROOT]>>

\* resp.set_cookie('Cloud-CDN-Cookie', value, expires=expires, path=path)
set_cookie(value, expires, path) ==
    <<[name |-> "Cloud-CDN-Cookie", value |-> value, expires |-> expires, path |-> path]>>

AlreadyLoggedIn == "File not found! You have already logged in. <a href=\"/logout\">Logout</a>"

\* home(), 'logged_in' unset (lines 38-49): what the view does to the session,
\* whether it raised, how often it called the secret store, and its response.
login(sess, url, now, answer) ==
    LET session1         == sess \cup {"logged_in"}
        expire_time      == now + 3600 * 24 * 7
        cdn_sign_key_val == get_secret(cdn_sign_key_name, answer)
        cookie == IF cdn_sign_key_val.err
                  THEN [err |-> TRUE, val |-> <<>>]
                  ELSE sign_cookie(web_url, cdn_sign_key_name, cdn_sign_key_val.val,
                                   utcfromtimestamp(expire_time))
    IN  IF cookie.err
        THEN [session |-> session1, raised |-> TRUE, fetched |-> 1,
              resp |-> [status |-> 500, location |-> <<>>, body |-> "",
                        cookies |-> NoCookies]]
        ELSE [session |-> session1, raised |-> FALSE, fetched |-> 1,
              resp |-> [status |-> 302,
                        location |-> replace(url, HTTP_COLON, HTTPS_COLON),
                        body |-> "",
                        cookies |-> set_cookie(cookie.val, expire_time, gcs_path)]]

\* Mutant of already_logged_in: the branch issues the cookie's removal.
already_logged_in_expires_cookie(sess) ==
    [session |-> sess, raised |-> FALSE, fetched |-> 0,
     resp |-> [status |-> 200, location |-> <<>>, body |-> AlreadyLoggedIn,
               cookies |-> set_cookie(<<>>, 0, gcs_path)]]

\* home(), 'logged_in' set (lines 50-51).
already_logged_in(sess) ==
    [session |-> sess, raised |-> FALSE, fetched |-> 0,
     resp |-> [status |-> 200, location |-> <<>>, body |-> AlreadyLoggedIn,
               cookies |-> NoCookies]]

\* home()
home(sess, url, now, answer) ==
    IF "logged_in" \notin sess
    THEN login(sess, url, now, answer)
    ELSE already_logged_in(sess)

\* Mutant of logout: session.clear() left out.
logout_keeps_session(sess) ==
    [session |-> sess, raised |-> FALSE, fetched |-> 0,
     resp |-> [status |-> 302, location |-> LOGOUT_REDIRECT, body |-> "",
               cookies |-> set_cookie(<<>>, 0, gcs_path)]]

\* logout()
logout(sess) ==
    [session |-> {}, raised |-> FALSE, fetched |-> 0,
     resp |-> [status |-> 302, location |-> LOGOUT_REDIRECT, body |-> "",
               cookies |-> set_cookie(<<>>, 0, gcs_path)]]

\* Mutant of not_found: the handler answers 404 itself.
not_found_page(sess, url, now, answer) ==
    [session |-> sess, raised |-> FALSE, fetched |-> 0,
     resp |-> [status |-> 404, location |-> <<>>, body |-> "Not Found",
               cookies |-> NoCookies]]

\* not_found(e)
not_found(sess, url, now, answer) == home(sess, url, now, answer)

\* Mutant of finalize: the session is never saved.
finalize_unsaved(sess, result) == [session |-> sess, resp |-> result.resp]

\* Flask around a view: a view that returns has its session saved with its
\* response.  A view that raises: with app.debug the exception propagates out
\* of the application and the session is not saved; otherwise Flask answers
\* 500 and saves the session as the view left it.
finalize(sess, result) ==
    IF result.raised /\ debug
    THEN [session |-> sess, resp |-> result.resp]
    ELSE [session |-> result.session, resp |-> result.resp]

\* The view that serves request r.
dispatch(sess, r, now, answer) ==
    CASE route(r.path) = "home"      -> home(sess, request_url(r), now, answer)
      [] route(r.path) = "logout"    -> logout(sess)
      [] route(r.path) = "not_found" -> not_found(sess, request_url(r), now, answer)

NoAnswer == [ok |-> FALSE, payload |-> <<>>]

Init ==
    /\ web_url \in WebUrls
    /\ cdn_sign_key_name \in KeyNames
    /\ gcs_path \in GcsPaths
    /\ debug \in BOOLEAN
    /\ session = {}
    /\ fetches = 0
    /\ found_unset = 0
    /\ last = [handler |-> "none", url |-> <<>>, now |-> 0, answer |-> NoAnswer,
               session |-> {}, fetched |-> 0, raised |-> FALSE, prev |-> "none", prev_status |-> 0]
    /\ resp = [status |-> 0, location |-> <<>>, body |-> "", cookies |-> NoCookies]

\* One request served from beginning to end.
Serve(r, now, answer) ==
    \E result \in {dispatch(session, r, now, answer)} :
    LET done == finalize(session, result)
    IN  /\ session' = done.session
        /\ resp' = done.resp
        /\ fetches' = fetches + result.fetched
        /\ found_unset' = found_unset +
               (IF route(r.path) # "logout" /\ "logged_in" \notin session THEN 1 ELSE 0)
        /\ last' = [handler |-> route(r.path), url |-> request_url(r), now |-> now,
                    answer |-> answer, session |-> session, fetched |-> result.fetched,
                    raised |-> result.raised, prev |-> last.handler,
                    prev_status |-> resp.status]
        /\ UNCHANGED <<web_url, cdn_sign_key_name, gcs_path, debug>>

\* A request whose view reads the clock and the secret store: home() with
\* 'logged_in' unset.
Login(r) ==
    /\ route(r.path) # "logout"
    /\ "logged_in" \notin session
    /\ fetches < MaxFetches
    /\ \E now \in Nows, answer \in StoreAnswers : Serve(r, now, answer)

\* A request to '/' with 'logged_in' set.
HomeAgain(r) ==
    /\ route(r.path) = "home"
    /\ "logged_in" \in session
    /\ Serve(r, 0, NoAnswer)

\* A request to an unmatched path with 'logged_in' set.
NotFoundAgain(r) ==
    /\ route(r.path) = "not_found"
    /\ "logged_in" \in session
    /\ Serve(r, 0, NoAnswer)

\* A request to /logout.
Logout(r) ==
    /\ route(r.path) = "logout"
    /\ Serve(r, 0, NoAnswer)

Next ==
    \E r \in RequestUrls :
        \/ Login(r)
        \/ HomeAgain(r)
        \/ NotFoundAgain(r)
        \/ Logout(r)

Spec == Init /\ [][Next]_vars

(***************************************************************************)
(* Reading a cookie back, as a verifier does                               *)
(***************************************************************************)

\* The first index at which pat occurs in s, or 0.
index_of(s, pat) ==
    LET hits == {i \in 1..(Len(s) - Len(pat) + 1) : SubSeq(s, i, i + Len(pat) - 1) = pat}
    IN  IF hits = {} THEN 0 ELSE CHOOSE i \in hits : \A j \in hits : i <= j

\* s.split(':')
RECURSIVE split_colon(_)
split_colon(s) ==
    LET i == index_of(s, <<":">>)
    IN  IF i = 0 THEN <<s>>
        ELSE <<SubSeq(s, 1, i - 1)>> \o split_colon(SubSeq(s, i + 1, Len(s)))

\* int(s) for a string of decimal digits; -1 for anything else.
RECURSIVE parse_int(_)
parse_int(s) ==
    IF s = <<>> \/ \E i \in DOMAIN s : Ord[s[i]] \notin 48..57 THEN -1
    ELSE IF Len(s) = 1 THEN Ord[s[1]] - 48
    ELSE parse_int(SubSeq(s, 1, Len(s) - 1)) * 10 + (Ord[s[Len(s)]] - 48)

\* The part of s after the prefix p.
after(s, p) == SubSeq(s, Len(p) + 1, Len(s))

\* RFC 4648 URL-safe base64: the URL-safe alphabet only, in quads, with at
\* most two '=' and only at the end.
UrlSafeAlphabet == ({B64Std[i] : i \in DOMAIN B64Std} \ {"+", "/"}) \cup {"-", "_"}
ValidUrlSafeB64(s) ==
    /\ Len(s) % 4 = 0
    /\ \A i \in DOMAIN s :
          \/ s[i] \in UrlSafeAlphabet
          \/ s[i] = "=" /\ i > Len(s) - 2 /\ \A j \in i..Len(s) : s[j] = "="

(***************************************************************************)
(* What the last request was                                               *)
(***************************************************************************)

\* home() ran (for '/' or through not_found) and found 'logged_in' unset.
FoundUnset == last.handler \in {"home", "not_found"} /\ "logged_in" \notin last.session

\* home() ran and found 'logged_in' set.
FoundSet == last.handler \in {"home", "not_found"} /\ "logged_in" \in last.session

\* The key get_secret handed to sign_cookie.
FetchedKey == rstrip(last.answer.payload)

\* The secret store answered and base64 decoding of the key did not raise.
FetchAndDecodeOk == last.answer.ok /\ ~urlsafe_b64decode(FetchedKey).err

\* The response sets a non-empty Cloud-CDN-Cookie.
Issued ==
    /\ Len(resp.cookies) = 1
    /\ resp.cookies[1].name = "Cloud-CDN-Cookie"
    /\ resp.cookies[1].value # <<>>

(***************************************************************************)
(* Claims                                                                  *)
(***************************************************************************)

\* C1: when get_secret fails in a request that home() serves with the flag
\* unset, the caller's session flag is still unset after the request.
C1_FailedLoginLeavesLoggedOut ==
    (FoundUnset /\ ~last.answer.ok) => "logged_in" \notin session

\* C2: a request that home() serves with the flag unset, whose secret fetch
\* and key decode succeed, sets the flag, calls the secret store exactly once
\* and answers with a redirect that sets Cloud-CDN-Cookie to a non-empty
\* signed policy with Path = GCS_PATH.
C2_LoginIssuesCookie ==
    (FoundUnset /\ FetchAndDecodeOk) =>
        /\ "logged_in" \in session
        /\ last.fetched = 1
        /\ resp.status = 302
        /\ resp.location # <<>>
        /\ Issued
        /\ startswith(resp.cookies[1].value, URLPrefixEq)
        /\ index_of(resp.cookies[1].value, SignatureEq) > 0
        /\ resp.cookies[1].path = gcs_path

C2_Witness ==
    /\ last.handler = "home" /\ FoundUnset /\ FetchAndDecodeOk
    /\ resp.status = 302 /\ Issued
    /\ gcs_path = PATH_GCS

\* C3: a request that home() serves with the flag set gets the 'already
\* logged in' body, no Cloud-CDN-Cookie, makes no call of the secret store and
\* leaves the flag set, however many such requests came before.
C3_LoggedInSelfLoop ==
    FoundSet =>
        /\ resp.status = 200
        /\ resp.body = AlreadyLoggedIn
        /\ resp.cookies = NoCookies
        /\ last.fetched = 0
        /\ "logged_in" \in session

\* Two such requests in a row.
C3_Witness ==
    /\ FoundSet /\ last.prev \in {"home", "not_found"} /\ last.prev_status = 200
    /\ resp.status = 200 /\ "logged_in" \in session

\* C4: /logout, from either session state, leaves the flag unset, redirects
\* to '/?gcp-iap-mode=CLEAR_LOGIN_COOKIE', overwrites Cloud-CDN-Cookie with
\* the empty value, expiry 0 and Path = GCS_PATH, and never calls the secret
\* store.
C4_LogoutClears ==
    last.handler = "logout" =>
        /\ "logged_in" \notin session
        /\ resp.status = 302
        /\ resp.location = LOGOUT_REDIRECT
        /\ resp.cookies = <<[name |-> "Cloud-CDN-Cookie", value |-> <<>>,
                             expires |-> 0, path |-> gcs_path]>>
        /\ last.fetched = 0

C4_Witness ==
    /\ last.handler = "logout" /\ "logged_in" \in last.session
    /\ session = {} /\ resp.status = 302 /\ gcs_path = PATH_GCS

\* C5: a request in which the secret retrieval fails or the fetched key is
\* not valid URL-safe base64 ends in an error and sets no Cloud-CDN-Cookie;
\* a non-empty Cloud-CDN-Cookie follows only a successful fetch and signing.
C5_NoCookieOnFailure ==
    /\ (FoundUnset /\ (~last.answer.ok \/ ~ValidUrlSafeB64(FetchedKey))) =>
           (resp.status = 500 /\ resp.cookies = NoCookies)
    /\ Issued => (FoundUnset /\ FetchAndDecodeOk)

\* C6: a request to an unmatched path changes the state (flag, secret fetch)
\* and is answered (status, body, cookies) as a request to '/' would be in the
\* same state with the same clock and secret store answer.
C6_UnknownPathEqualsHome ==
    last.handler = "not_found" =>
        LET root == request_url([scheme |-> HTTP, host |-> HOST,
                                  path |-> PATH_ROOT, query |-> <<>>])
            h    == home(last.session, root, last.now, last.answer)
            f    == finalize(last.session, h)
        IN  /\ session = f.session
            /\ last.fetched = h.fetched
            /\ last.raised = h.raised
            /\ resp.status = f.resp.status
            /\ resp.body = f.resp.body
            /\ resp.cookies = f.resp.cookies
            /\ (resp.location = <<>>) = (f.resp.location = <<>>)

C6_Witness ==
    /\ last.handler = "not_found" /\ "logged_in" \notin last.session
    /\ Issued /\ resp.status = 302

\* C7: the Expires field inside the signed policy and the Expires attribute
\* of the issued Cloud-CDN-Cookie are the same integer, now + 604800; an
\* expiration time of epoch + t seconds is embedded as t.
C7_ExpiryConsistency ==
    (FoundUnset /\ Issued) =>
        LET c == resp.cookies[1]
            f == split_colon(c.value)
        IN  /\ Len(f) >= 2
            /\ startswith(f[2], Tail(ExpiresEq))
            /\ parse_int(after(f[2], Tail(ExpiresEq))) = c.expires
            /\ c.expires = last.now + 604800

\* The spec's case: epoch + 1000000 seconds is embedded as 1000000.
C7_Witness ==
    /\ FoundUnset /\ Issued
    /\ resp.cookies[1].expires = 1000000
    /\ parse_int(after(split_colon(resp.cookies[1].value)[2], Tail(ExpiresEq))) = 1000000

\* C8: the signed cookie is Policy + ':Signature=' + S, Policy being
\* URLPrefix=<base64url of the trimmed URL prefix>:Expires=<timestamp>:KeyName=<key name>
\* in that order, and the MAC of everything before ':Signature=' under the
\* decoded key, base64url-encoded, is S.
C8_RoundTrip ==
    (FoundUnset /\ Issued) =>
        LET v      == resp.cookies[1].value
            i      == index_of(v, SignatureEq)
            policy == SubSeq(v, 1, i - 1)
            S      == SubSeq(v, i + Len(SignatureEq), Len(v))
            f      == split_colon(policy)
            key    == urlsafe_b64decode(FetchedKey).val
        IN  /\ i > 0
            /\ Len(f) = 3
            /\ startswith(f[1], URLPrefixEq)
            /\ urlsafe_b64decode(after(f[1], URLPrefixEq)) =
                   [err |-> FALSE, val |-> encode_utf8(strip(web_url))]
            /\ startswith(f[2], Tail(ExpiresEq))
            /\ parse_int(after(f[2], Tail(ExpiresEq))) = last.now + 604800
            /\ f[3] = Tail(KeyNameEq) \o cdn_sign_key_name
            /\ S = urlsafe_b64encode(hmac_sha1_digest(key, encode_utf8(policy)))

\* A cookie signed with a non-empty key for a URL prefix that needed trimming.
C8_Witness ==
    /\ FoundUnset /\ Issued
    /\ urlsafe_b64decode(FetchedKey).val # <<>>
    /\ web_url = WEB_URL_PADDED
    /\ index_of(resp.cookies[1].value, SignatureEq) > 0

\* C9: the login redirect points to the requested URL with only its scheme
\* forced to https; host, path and query are those of the request.
C9_RedirectForcesSchemeOnly ==
    (FoundUnset /\ resp.status = 302) =>
        resp.location = HTTPS \o SubSeq(last.url, index_of(last.url, <<":">>), Len(last.url))

\* C10 as stated: after a logout the caller's next request to another path
\* finds the flag unset and, if the secret fetch succeeds, logs in again with
\* a new fetch and a fresh non-empty cookie; fetches equal the requests that
\* found the flag unset.
C10_AsStated ==
    /\ (last.prev = "logout" /\ last.handler \in {"home", "not_found"}) =>
          /\ "logged_in" \notin last.session
          /\ last.fetched = 1
          /\ last.answer.ok => ("logged_in" \in session /\ Issued)
    /\ fetches = found_unset

\* C10, amended: after a logout the caller's next request to another path
\* finds the flag unset and calls the secret store once; if the fetch and the
\* key decode succeed it logs in again with a fresh non-empty cookie; the
\* secret store calls equal the runs of home() that found the flag unset.
C10_LogoutUndone ==
    /\ (last.prev = "logout" /\ last.handler \in {"home", "not_found"}) =>
          /\ "logged_in" \notin last.session
          /\ last.fetched = 1
          /\ FetchAndDecodeOk => ("logged_in" \in session /\ Issued /\ resp.status = 302)
    /\ fetches = found_unset

\* A login through the logout redirect's own target.
C10_Witness ==
    /\ last.prev = "logout" /\ last.handler = "home"
    /\ last.url = HTTPS \o <<":","/","/">> \o HOST \o LOGOUT_REDIRECT
    /\ FetchAndDecodeOk /\ Issued /\ "logged_in" \in session
    /\ fetches = 2 /\ found_unset = 2
=============================================================================
